---- MODULE Spec2Model ----
\* Brand-Voice Campaign Architect (src/app.py): the JSON extractor, the LLM
\* call adapter and the two button handlers that write the session store.
EXTENDS Integers, Sequences, FiniteSets, TLC

\* ---------------------------------------------------------------- bounds
\* longest raw text enumerated character by character
MaxLen == 4
\* longest prose run put before and after an enclosed JSON object
MaxPad == 2
\* script runs that may be in flight on the one session (SpecConc only)
MaxRuns == 2

\* ------------------------------------------------------------ characters
LB == "{"
RB == "}"
QT == "\""
CO == ":"
D1 == "1"
SP == " "
NL == "\n"
PX == "x"

Char == {LB, RB, QT, CO, D1, SP, NL, PX}
\* characters of wrapping prose
PadChar == {LB, RB, SP, NL, PX}

\* str.strip() / JSON insignificant whitespace
IsSpace(c) == c \in {SP, NL}

SeqsUpTo(S, n) == UNION {[1..k -> S] : k \in 0..n}

\* ------------------------------------------------------------ JSON values
NoVal == [t |-> "none", n |-> 0, m |-> <<>>]
NumVal(k) == [t |-> "num", n |-> k, m |-> <<>>]
EmptyObj == [t |-> "obj", n |-> 0, m |-> <<>>]
ObjVal(key, val) == [t |-> "obj", n |-> 0, m |-> <<key, val>>]

\* result of a parsing step: ok, the value, the index after it
PFail == [ok |-> FALSE, val |-> NoVal, next |-> 0]
POk(v, i) == [ok |-> TRUE, val |-> v, next |-> i]

\* first index >= i that holds no whitespace (Len(s)+1 when there is none)
RECURSIVE SkipWs(_, _)
SkipWs(s, i) ==
    IF i <= Len(s) /\ IsSpace(s[i]) THEN SkipWs(s, i + 1) ELSE i

\* index of the closing quote of the string opened before i; 0 when the
\* string is unterminated or holds a raw control character
RECURSIVE StringEnd(_, _)
StringEnd(s, i) ==
    IF i > Len(s) THEN 0
    ELSE IF s[i] = QT THEN i
    ELSE IF s[i] = NL THEN 0
    ELSE StringEnd(s, i + 1)

\* a number of the alphabet is a run of the digit 1: [value, index after it]
RECURSIVE ScanNumber(_, _, _)
ScanNumber(s, i, acc) ==
    IF i <= Len(s) /\ s[i] = D1 THEN ScanNumber(s, i + 1, 10 * acc + 1)
    ELSE <<acc, i>>

\* json.loads' value scanner at index i (objects hold at most one member:
\* the alphabet has no comma)
RECURSIVE ParseValue(_, _)
ParseValue(s, i) ==
    IF i > Len(s) THEN PFail
    ELSE IF s[i] = D1 THEN
        LET r == ScanNumber(s, i, 0) IN POk(NumVal(r[1]), r[2])
    ELSE IF s[i] = LB THEN
        LET j == SkipWs(s, i + 1) IN
        IF j > Len(s) THEN PFail
        ELSE IF s[j] = RB THEN POk(EmptyObj, j + 1)
        ELSE IF s[j] # QT THEN PFail
        ELSE
            LET e == StringEnd(s, j + 1) IN
            IF e = 0 THEN PFail
            ELSE
                LET c == SkipWs(s, e + 1) IN
                IF c > Len(s) \/ s[c] # CO THEN PFail
                ELSE
                    LET v == ParseValue(s, SkipWs(s, c + 1)) IN
                    IF ~v.ok THEN PFail
                    ELSE
                        LET z == SkipWs(s, v.next) IN
                        IF z > Len(s) \/ s[z] # RB THEN PFail
                        ELSE POk(ObjVal(SubSeq(s, j + 1, e - 1), v.val), z + 1)
    ELSE PFail

\* ------------------------------------------------------------ exceptions
NoExc == [type |-> "none", msg |-> "none"]
\* ValueError("No JSON object found in model output.")
ExtractionError ==
    [type |-> "ValueError", msg |-> "No JSON object found in model output."]
\* json.JSONDecodeError raised by json.loads
ParseError == [type |-> "JSONDecodeError", msg |-> "invalid JSON"]

Returned(v) == [exc |-> NoExc, val |-> v]
Raised(e) == [exc |-> e, val |-> NoVal]

\* json.loads(s): one value, whitespace around it, nothing else
json_loads(s) ==
    LET v == ParseValue(s, SkipWs(s, 1)) IN
    IF v.ok /\ SkipWs(s, v.next) > Len(s) THEN Returned(v.val)
    ELSE Raised(ParseError)

\* str.strip()
RECURSIVE RStrip(_)
RStrip(s) ==
    IF Len(s) > 0 /\ IsSpace(s[Len(s)]) THEN RStrip(SubSeq(s, 1, Len(s) - 1))
    ELSE s

strip(s) == LET r == RStrip(s) IN SubSeq(r, SkipWs(r, 1), Len(r))

Positions(s, c) == {i \in 1..Len(s) : s[i] = c}
Min(S) == CHOOSE x \in S : \A y \in S : x <= y
Max(S) == CHOOSE x \in S : \A y \in S : x >= y

\* a non-greedy pattern, r"\{.*?\}": the match ends at the first "}"
re_search_lazy(s) ==
    IF Positions(s, LB) = {} THEN <<0, 0>>
    ELSE
        LET f == Min(Positions(s, LB))
            after == {j \in Positions(s, RB) : j > f}
        IN IF after = {} THEN <<0, 0>> ELSE <<f, Min(after)>>

\* re.search(r"\{.*\}", text, flags=re.S): <<first, last>> of the match,
\* <<0, 0>> when there is none
re_search(s) ==
    IF Positions(s, LB) = {} THEN <<0, 0>>
    ELSE
        LET f == Min(Positions(s, LB))
            after == {j \in Positions(s, RB) : j > f}
        IN IF after = {} THEN <<0, 0>> ELSE <<f, Max(after)>>

\* without the "if not m" test: the whole text is parsed when nothing matches
extract_json_unchecked(raw) ==
    LET text == strip(raw) IN
    IF Len(text) > 0 /\ text[1] = LB /\ text[Len(text)] = RB
    THEN json_loads(text)
    ELSE
        LET m == re_search(text) IN
        IF m[1] = 0 THEN json_loads(text)
        ELSE json_loads(SubSeq(text, m[1], m[2]))

extract_json(raw) ==
    LET text == strip(raw) IN
    IF Len(text) > 0 /\ text[1] = LB /\ text[Len(text)] = RB
    THEN json_loads(text)
    ELSE
        LET m == re_search(text) IN
        IF m[1] = 0 THEN Raised(ExtractionError)
        ELSE json_loads(SubSeq(text, m[1], m[2]))

\* ------------------------------------------------------------- provider
\* client.chat.completions.create: raises, or returns message content
ProviderMsgs == {"Connection error.", "Rate limit reached."}

\* contents the model returns: three well-formed documents (one wrapped in
\* prose), prose without JSON, a malformed object, an object with a brace
\* after it
ModelTexts ==
    { <<LB, RB>>,
      <<LB, QT, QT, CO, D1, RB>>,
      <<PX, SP, LB, QT, PX, QT, CO, D1, D1, RB, NL>>,
      <<PX, PX>>,
      <<LB, QT, PX, RB>>,
      <<LB, RB, SP, RB>> }

Failure(m) == [ok |-> FALSE, msg |-> m, text |-> <<>>]
Content(t) == [ok |-> TRUE, msg |-> "none", text |-> t]
NoResp == [ok |-> FALSE, msg |-> "none", text |-> <<>>]

Responses == {Failure(m) : m \in ProviderMsgs} \cup {Content(t) : t \in ModelTexts}
\* the responses drawn when several script runs are in flight
ConcResponses ==
    { Failure("Connection error."),
      Content(<<LB, QT, QT, CO, D1, RB>>) }

APIError(m) == [type |-> "APIError", msg |-> m]

\* ------------------------------------------------------------- messages
Shown(level, label, msg) == [level |-> level, label |-> label, msg |-> msg]

\* an except clause that raises one generic error for every cause
call_llm_json_generic(resp) ==
    LET r == IF resp.ok THEN extract_json(resp.text)
             ELSE Raised(APIError(resp.msg))
        e == [type |-> "RuntimeError", msg |-> "LLM call failed"]
    IN [ exc |-> IF r.exc = NoExc THEN NoExc ELSE e,
         val |-> r.val,
         shown |-> IF r.exc = NoExc THEN <<>>
                   ELSE <<Shown("error", "API Error", e.msg)>> ]

\* call_llm_json: the provider call, extract_json on its content; any
\* exception is displayed as "API Error: ..." and raised again unchanged
call_llm_json(resp) ==
    LET r == IF resp.ok THEN extract_json(resp.text)
             ELSE Raised(APIError(resp.msg))
    IN [ exc |-> r.exc,
         val |-> r.val,
         shown |-> IF r.exc = NoExc THEN <<>>
                   ELSE <<Shown("error", "API Error", r.exc.msg)>> ]

\* -------------------------------------------------------- session store
Runs == 1..MaxRuns
\* the one script run a session executes at a time
SeqRuns == {1}

EmptySession == [voice_card |-> NoVal, assets |-> NoVal, audit |-> NoVal]

\* "key" in st.session_state
Has(ss, key) == ss[key] # NoVal

\* st.warning("Generate the Voice Card + Assets first.")
PreconditionError ==
    [type |-> "warning", msg |-> "Generate the Voice Card + Assets first."]
PendingExc == [type |-> "pending", msg |-> "none"]

NoPrompt == [stage |-> "none", voice_card |-> NoVal, assets |-> NoVal]

VARIABLES
    session_state,   \* st.session_state: voice_card, assets, audit
    pc,              \* per run: idle, voice_call, assets_call, audit_call
    handler,         \* per run: the handler of its last click
    voice_card,      \* per run: the generate handler's local voice_card
    prompt,          \* per run: what the outstanding call's user_input embeds
    calls,           \* per run: provider calls made since its last click
    shown,           \* per run: messages displayed since its last click
    outcome,         \* per run: stage and exception of its last stage attempt
    response,        \* per run: the provider's answer to its last call
    entry,           \* per run: session_state at its last click
    before,          \* per run: session_state when its last stage began
    inflight,        \* per run: another run was in flight at its last click
    origin,          \* the documents the stored assets and audit were made from
    auditAt,         \* session_state when the stored audit's call was made
    lastGen,         \* result of the latest generate action
    lastVoiceGen     \* result of the latest generate action that stored a voice card

pvars == <<session_state, pc, handler, voice_card, prompt, calls, shown,
           outcome, response, entry, before, inflight, origin, auditAt,
           lastGen, lastVoiceGen>>

NoOrigin == [assets |-> NoVal, audit |-> NoPrompt]

InitPipeline ==
    /\ session_state = EmptySession
    /\ pc = [r \in Runs |-> "idle"]
    /\ handler = [r \in Runs |-> "none"]
    /\ voice_card = [r \in Runs |-> NoVal]
    /\ prompt = [r \in Runs |-> NoPrompt]
    /\ calls = [r \in Runs |-> 0]
    /\ shown = [r \in Runs |-> <<>>]
    /\ outcome = [r \in Runs |-> [stage |-> "none", exc |-> NoExc]]
    /\ response = [r \in Runs |-> NoResp]
    /\ entry = [r \in Runs |-> EmptySession]
    /\ before = [r \in Runs |-> EmptySession]
    /\ inflight = [r \in Runs |-> FALSE]
    /\ origin = NoOrigin
    /\ auditAt = EmptySession
    /\ lastGen = "none"
    /\ lastVoiceGen = "none"

OthersInFlight(r) == \E q \in Runs \ {r} : pc[q] # "idle"

\* the slot assigned whether or not the call failed
StoreAlways(ss, key, res) == [ss EXCEPT ![key] = res.val]

\* the assignment to the slot left out
StoreSkip(ss, key, res) == ss

\* a stored result that also drops the audit made from older documents
StoreInvalidate(ss, key, res) ==
    IF res.exc = NoExc
    THEN [[ss EXCEPT !.audit = NoVal] EXCEPT ![key] = res.val]
    ELSE ss

\* what a stage writes: the slot is assigned only after call_llm_json returned
Store(ss, key, res) ==
    IF res.exc = NoExc THEN [ss EXCEPT ![key] = res.val] ELSE ss

\* the except clause of a handler: st.error(f"{label}: {str(e)}")
Except(label, res) ==
    res.shown \o <<Shown("error", label, res.exc.msg)>>

\* a precondition that tests the voice card alone
AuditReadyVoiceOnly(ss) == Has(ss, "voice_card")

\* the precondition of run_audit
AuditReady(ss) == Has(ss, "voice_card") /\ Has(ss, "assets")

\* an assets prompt that leaves the voice card out
AssetsPromptNoCard(local) ==
    [stage |-> "assets", voice_card |-> NoVal, assets |-> NoVal]

\* user_input of the assets call: pretty_json of the local voice_card
AssetsPrompt(local) ==
    [stage |-> "assets", voice_card |-> local, assets |-> NoVal]

\* user_input of the audit call: pretty_json of the two stored documents
AuditPrompt(ss) ==
    [stage |-> "audit", voice_card |-> ss.voice_card, assets |-> ss.assets]

\* click on "Generate Voice Card + Assets": the voice call is sent
Generate(r) ==
    /\ pc[r] = "idle"
    /\ pc' = [pc EXCEPT ![r] = "voice_call"]
    /\ handler' = [handler EXCEPT ![r] = "generate"]
    /\ voice_card' = [voice_card EXCEPT ![r] = NoVal]
    /\ prompt' = [prompt EXCEPT ![r] = [NoPrompt EXCEPT !.stage = "voice"]]
    /\ calls' = [calls EXCEPT ![r] = 1]
    /\ shown' = [shown EXCEPT ![r] = <<>>]
    /\ outcome' = [outcome EXCEPT ![r] = [stage |-> "voice", exc |-> PendingExc]]
    /\ response' = [response EXCEPT ![r] = NoResp]
    /\ entry' = [entry EXCEPT ![r] = session_state]
    /\ before' = [before EXCEPT ![r] = session_state]
    /\ inflight' = [inflight EXCEPT ![r] = OthersInFlight(r)]
    /\ UNCHANGED <<session_state, origin, auditAt, lastGen, lastVoiceGen>>

\* the voice call returns: on success the card is stored and the assets call
\* is sent; on failure the handler's except clause ends the run
VoiceReturn(r, resp) ==
    /\ pc[r] = "voice_call"
    /\ LET res == call_llm_json(resp)
           ss == Store(session_state, "voice_card", res)
       IN
       /\ response' = [response EXCEPT ![r] = resp]
       /\ session_state' = ss
       /\ IF res.exc = NoExc
          THEN /\ pc' = [pc EXCEPT ![r] = "assets_call"]
               /\ voice_card' = [voice_card EXCEPT ![r] = res.val]
               /\ prompt' = [prompt EXCEPT ![r] = AssetsPrompt(res.val)]
               /\ calls' = [calls EXCEPT ![r] = @ + 1]
               /\ shown' = [shown EXCEPT ![r] =
                              @ \o <<Shown("success", "Voice Card generated!", "none")>>]
               /\ outcome' = [outcome EXCEPT ![r] =
                                [stage |-> "assets", exc |-> PendingExc]]
               /\ before' = [before EXCEPT ![r] = ss]
               /\ lastGen' = "assets_pending"
               /\ lastVoiceGen' = "assets_pending"
          ELSE /\ pc' = [pc EXCEPT ![r] = "idle"]
               /\ shown' = [shown EXCEPT ![r] = @ \o Except("Generation failed", res)]
               /\ outcome' = [outcome EXCEPT ![r] =
                                [stage |-> "voice", exc |-> res.exc]]
               /\ lastGen' = "voice_failed"
               /\ UNCHANGED <<voice_card, prompt, calls, before, lastVoiceGen>>
    /\ UNCHANGED <<handler, entry, inflight, origin, auditAt>>

\* the assets call returns
AssetsReturn(r, resp) ==
    /\ pc[r] = "assets_call"
    /\ LET res == call_llm_json(resp) IN
       /\ response' = [response EXCEPT ![r] = resp]
       /\ session_state' = Store(session_state, "assets", res)
       /\ outcome' = [outcome EXCEPT ![r] = [stage |-> "assets", exc |-> res.exc]]
       /\ IF res.exc = NoExc
          THEN /\ shown' = [shown EXCEPT ![r] =
                              @ \o <<Shown("success", "Assets generated!", "none")>>]
               /\ origin' = [origin EXCEPT !.assets = prompt[r].voice_card]
               /\ lastGen' = "ok"
               /\ lastVoiceGen' = "ok"
          ELSE /\ shown' = [shown EXCEPT ![r] = @ \o Except("Generation failed", res)]
               /\ lastGen' = "assets_failed"
               /\ lastVoiceGen' = "assets_failed"
               /\ UNCHANGED origin
    /\ pc' = [pc EXCEPT ![r] = "idle"]
    /\ UNCHANGED <<handler, voice_card, prompt, calls, entry, before, inflight,
                   auditAt>>

\* click on "Run Consistency Audit": a warning when a document is missing,
\* else the audit call is sent
RunAudit(r) ==
    /\ pc[r] = "idle"
    /\ handler' = [handler EXCEPT ![r] = "run_audit"]
    /\ response' = [response EXCEPT ![r] = NoResp]
    /\ entry' = [entry EXCEPT ![r] = session_state]
    /\ before' = [before EXCEPT ![r] = session_state]
    /\ inflight' = [inflight EXCEPT ![r] = OthersInFlight(r)]
    /\ IF AuditReady(session_state)
       THEN /\ pc' = [pc EXCEPT ![r] = "audit_call"]
            /\ prompt' = [prompt EXCEPT ![r] = AuditPrompt(session_state)]
            /\ calls' = [calls EXCEPT ![r] = 1]
            /\ shown' = [shown EXCEPT ![r] = <<>>]
            /\ outcome' = [outcome EXCEPT ![r] =
                             [stage |-> "audit", exc |-> PendingExc]]
       ELSE /\ pc' = pc
            /\ prompt' = [prompt EXCEPT ![r] = NoPrompt]
            /\ calls' = [calls EXCEPT ![r] = 0]
            /\ shown' = [shown EXCEPT ![r] =
                           <<Shown("warning", PreconditionError.msg, "none")>>]
            /\ outcome' = [outcome EXCEPT ![r] =
                             [stage |-> "audit", exc |-> PreconditionError]]
    /\ UNCHANGED <<session_state, voice_card, origin, auditAt, lastGen,
                   lastVoiceGen>>

\* the audit call returns
AuditReturn(r, resp) ==
    /\ pc[r] = "audit_call"
    /\ LET res == call_llm_json(resp) IN
       /\ response' = [response EXCEPT ![r] = resp]
       /\ session_state' = Store(session_state, "audit", res)
       /\ outcome' = [outcome EXCEPT ![r] = [stage |-> "audit", exc |-> res.exc]]
       /\ IF res.exc = NoExc
          THEN /\ shown' = [shown EXCEPT ![r] =
                              @ \o <<Shown("success", "Audit complete!", "none")>>]
               /\ origin' = [origin EXCEPT !.audit = prompt[r]]
               /\ auditAt' = before[r]
          ELSE /\ shown' = [shown EXCEPT ![r] = @ \o Except("Audit failed", res)]
               /\ UNCHANGED <<origin, auditAt>>
    /\ pc' = [pc EXCEPT ![r] = "idle"]
    /\ UNCHANGED <<handler, voice_card, prompt, calls, entry, before, inflight,
                   lastGen, lastVoiceGen>>

\* --------------------------------------------------- extractor under test
VARIABLES
    parts,    \* how the raw text was put together: prose, object, prose
    text,     \* the raw text handed to extract_json
    result    \* what extract_json returned or raised

\* JSON-object texts enclosed in prose
Objects ==
    { <<LB, RB>>,
      <<LB, QT, QT, CO, D1, RB>>,
      <<LB, QT, PX, QT, CO, D1, D1, RB>>,
      <<LB, SP, QT, RB, QT, NL, CO, LB, RB, RB>> }

Pads == SeqsUpTo(PadChar, MaxPad)

\* an object between two runs of prose, or any short text as it is
Inputs ==
    { [wrapped |-> TRUE, pre |-> pre, obj |-> obj, post |-> post] :
        pre \in Pads, obj \in Objects, post \in Pads }
    \cup
    { [wrapped |-> FALSE, pre |-> <<>>, obj |-> t, post |-> <<>>] :
        t \in SeqsUpTo(Char, MaxLen) }

NoParts == [wrapped |-> FALSE, pre |-> <<>>, obj |-> <<>>, post |-> <<>>]

Pending == [exc |-> PendingExc, val |-> NoVal]

vars == <<pvars, parts, text, result>>

\* the extractor applied to one raw text
Extract ==
    /\ result = Pending
    /\ result' = extract_json(text)
    /\ UNCHANGED <<pvars, parts, text>>

InitExtract ==
    /\ InitPipeline
    /\ parts \in Inputs
    /\ text = parts.pre \o parts.obj \o parts.post
    /\ result = Pending

SpecExtract == InitExtract /\ [][Extract]_vars

\* ------------------------------------------------------- specifications
Init ==
    /\ InitPipeline
    /\ parts = NoParts
    /\ text = <<>>
    /\ result = Pending

\* one script run at a time, as a session executes its script
Next ==
    \E r \in SeqRuns :
        \/ Generate(r) /\ UNCHANGED <<parts, text, result>>
        \/ RunAudit(r) /\ UNCHANGED <<parts, text, result>>
        \/ \E resp \in Responses :
            \/ VoiceReturn(r, resp) /\ UNCHANGED <<parts, text, result>>
            \/ AssetsReturn(r, resp) /\ UNCHANGED <<parts, text, result>>
            \/ AuditReturn(r, resp) /\ UNCHANGED <<parts, text, result>>

Spec == Init /\ [][Next]_vars

\* several script runs against the one session_state; the handlers hold no
\* lock and test no in-flight flag
NextConc ==
    \E r \in Runs :
        \/ Generate(r) /\ UNCHANGED <<parts, text, result>>
        \/ RunAudit(r) /\ UNCHANGED <<parts, text, result>>
        \/ \E resp \in ConcResponses :
            \/ VoiceReturn(r, resp) /\ UNCHANGED <<parts, text, result>>
            \/ AssetsReturn(r, resp) /\ UNCHANGED <<parts, text, result>>
            \/ AuditReturn(r, resp) /\ UNCHANGED <<parts, text, result>>

SpecConc == Init /\ [][NextConc]_vars

\* ================================================================ claims
SlotSet(key) == session_state[key] # NoVal
AllIdle == \A r \in Runs : pc[r] = "idle"
StageFailed(r) ==
    outcome[r].exc.type \in {"APIError", "ValueError", "JSONDecodeError"}

\* C1: in every reachable state, the assets slot is set only if the
\* voice_card slot is set, and the audit slot is set only if both the
\* voice_card and the assets slots are set.
C1_SlotOrder ==
    /\ SlotSet("assets") => SlotSet("voice_card")
    /\ SlotSet("audit") => SlotSet("voice_card") /\ SlotSet("assets")

C1_Witness ==
    /\ SlotSet("audit")
    /\ outcome[1] = [stage |-> "assets", exc |-> ParseError]

\* C2: when a stage attempt has failed (provider failure, no JSON found,
\* invalid JSON) the three slots hold the values they held when that
\* attempt began; after a successful voice stage and a failed assets stage
\* the voice card written by that voice stage is in place and assets is
\* unset if it was unset before.
C2_FailureLeavesSlots ==
    \A r \in Runs :
        pc[r] = "idle" /\ StageFailed(r) =>
            /\ session_state = before[r]
            /\ outcome[r].stage = "assets" =>
                /\ SlotSet("voice_card")
                /\ session_state.voice_card = voice_card[r]
                /\ entry[r].assets = NoVal => ~SlotSet("assets")

C2_Witness ==
    /\ outcome[1] = [stage |-> "assets", exc |-> APIError("Connection error.")]
    /\ pc[1] = "idle"
    /\ entry[1] = EmptySession
    /\ SlotSet("voice_card")
    /\ ~SlotSet("assets")

\* C3: run_audit on a session that lacks the voice card or the assets ends
\* with the precondition warning, makes no provider call and leaves the
\* three slots unchanged.
C3_AuditPrecondition ==
    \A r \in Runs :
        /\ handler[r] = "run_audit"
        /\ entry[r].voice_card = NoVal \/ entry[r].assets = NoVal
        => /\ pc[r] = "idle"
           /\ outcome[r] = [stage |-> "audit", exc |-> PreconditionError]
           /\ calls[r] = 0
           /\ session_state = entry[r]

C3_Witness ==
    /\ handler[1] = "run_audit"
    /\ entry[1].voice_card # NoVal
    /\ entry[1].assets = NoVal
    /\ outcome[1].exc = PreconditionError
    /\ calls[1] = 0

\* C4 as claimed: the action that runs the assets stage, started on an
\* Empty session, fails with PreconditionError and makes no provider call.
C4_EmptyRefused ==
    \A r \in Runs :
        handler[r] = "generate" /\ entry[r] = EmptySession =>
            /\ calls[r] = 0
            /\ outcome[r].exc = PreconditionError

\* C4 amended: the assets stage is attempted only on a session that holds a
\* voice card, the one the voice stage of the same generate action stored
\* and that the assets prompt embeds; generate never reports a
\* PreconditionError and always makes the voice stage's provider call.
C4_AssetsAfterVoice ==
    \A r \in Runs :
        /\ outcome[r].stage = "assets" =>
            /\ before[r].voice_card # NoVal
            /\ before[r].voice_card = voice_card[r]
            /\ prompt[r].voice_card = voice_card[r]
        /\ handler[r] = "generate" =>
            /\ calls[r] >= 1
            /\ outcome[r].exc # PreconditionError

C4_Witness ==
    /\ handler[1] = "generate"
    /\ entry[1] = EmptySession
    /\ pc[1] = "assets_call"
    /\ calls[1] = 2
    /\ before[1].voice_card # NoVal

BusyError == [type |-> "BusyError", msg |-> "busy"]

\* C6: at most one stage transition is in flight on the session, and a call
\* issued while another is in flight ends with BusyError.
C6_OneInFlight ==
    /\ Cardinality({r \in Runs : pc[r] # "idle"}) <= 1
    /\ \A r \in Runs :
        inflight[r] /\ pc[r] = "idle" => outcome[r].exc = BusyError

Chars(s) == {s[i] : i \in 1..Len(s)}
BracePair(s) == \E i, j \in 1..Len(s) : i < j /\ s[i] = LB /\ s[j] = RB

\* C7 as claimed: for a JSON object between any two runs of non-JSON prose,
\* extract_json returns what parsing the object alone returns.
C7_AnyProse ==
    /\ result # Pending
    /\ parts.wrapped
    /\ ~BracePair(parts.pre)
    /\ ~BracePair(parts.post)
    => result = json_loads(parts.obj)

\* C7 amended: for a JSON object between prose that holds no "{" before the
\* object and no "}" after it, extract_json returns what parsing the object
\* alone returns.
C7_BraceFreeProse ==
    /\ result # Pending
    /\ parts.wrapped
    /\ LB \notin Chars(parts.pre)
    /\ RB \notin Chars(parts.post)
    => /\ result = json_loads(parts.obj)
       /\ result.exc = NoExc

C7_Witness ==
    /\ parts.wrapped
    /\ parts.pre = <<PX, RB>>
    /\ parts.obj = <<LB, SP, QT, RB, QT, NL, CO, LB, RB, RB>>
    /\ parts.post = <<LB, NL>>
    /\ result = Returned(ObjVal(<<RB>>, EmptyObj))

\* C8: for a text with no "{" followed later by a "}", extract_json raises
\* the "No JSON object found" error: no parse error, no value.
C8_NoBracePair ==
    result # Pending /\ ~BracePair(text) => result = Raised(ExtractionError)

C8_Witness ==
    /\ text = <<RB, QT, LB>>
    /\ result = Raised(ExtractionError)

\* C9: the exception a failed stage reports names its cause: a failed
\* provider call the provider's error, content without a brace pair the
\* "No JSON object found" error, any other failing content the JSON decode
\* error; and the handler displays the message of every failure.
C9_FailureKinds ==
    \A r \in Runs :
        pc[r] = "idle" /\ response[r] # NoResp =>
            /\ ~response[r].ok => outcome[r].exc = APIError(response[r].msg)
            /\ response[r].ok /\ ~BracePair(response[r].text) =>
                outcome[r].exc = ExtractionError
            /\ response[r].ok /\ BracePair(response[r].text) =>
                outcome[r].exc \in {NoExc, ParseError}
            /\ outcome[r].exc # NoExc =>
                \E i \in DOMAIN shown[r] :
                    /\ shown[r][i].level = "error"
                    /\ shown[r][i].label \in {"Generation failed", "Audit failed"}
                    /\ shown[r][i].msg = outcome[r].exc.msg

C9_Witness ==
    /\ pc[1] = "idle"
    /\ response[1] = Content(<<LB, QT, PX, RB>>)
    /\ outcome[1] = [stage |-> "audit", exc |-> ParseError]
    /\ Len(shown[1]) = 2

\* C10 as claimed: between actions, the stored assets were generated from
\* the stored voice card unless the latest generate action stored a voice
\* card and then failed at the assets stage; and the stored audit was
\* computed from the voice card and assets stored when its call was made.
C10_Provenance ==
    AllIdle =>
        /\ SlotSet("assets") =>
            origin.assets = session_state.voice_card \/ lastGen = "assets_failed"
        /\ SlotSet("audit") =>
            /\ origin.audit.voice_card = auditAt.voice_card
            /\ origin.audit.assets = auditAt.assets

\* C10 amended: between actions, the stored assets were generated from the
\* stored voice card unless the latest generate action that stored a voice
\* card then failed at the assets stage; and the stored audit was computed
\* from the voice card and assets stored when its call was made.
C10_ProvenanceSinceVoice ==
    AllIdle =>
        /\ SlotSet("assets") =>
            origin.assets = session_state.voice_card \/ lastVoiceGen = "assets_failed"
        /\ SlotSet("audit") =>
            /\ origin.audit.stage = "audit"
            /\ origin.audit.voice_card = auditAt.voice_card
            /\ origin.audit.assets = auditAt.assets
            /\ auditAt.voice_card # NoVal /\ auditAt.assets # NoVal

C10_Witness ==
    /\ AllIdle
    /\ SlotSet("audit")
    /\ origin.assets # session_state.voice_card
    /\ lastGen = "voice_failed"
    /\ lastVoiceGen = "assets_failed"
====
